---- MODULE Spec2Model ----
(***************************************************************************)
(* State-machine model of the 2N IP Intercom integration                   *)
(* (custom_components/2n_ip_intercom): the integration set-up              *)
(* (__init__.py), the polling coordinator (coordinator.py), the config     *)
(* flow (config_flow.py) and the door / switch entities (switch.py).       *)
(*                                                                         *)
(* One action is one handler run between two returns to the host           *)
(* scheduler; async_setup_entry is cut at its only await on the            *)
(* coordinator (the first refresh), and the scheduled poll at its await of *)
(* the device's answer, so that commands and the unload interleave with a  *)
(* poll in flight.  The device is the environment: every GET is answered   *)
(* by an outcome drawn from a small set.                                   *)
(***************************************************************************)
EXTENDS Integers, Sequences, FiniteSets, TLC

\* ------------------------------------------------------------- bounds

\* Highest switch number the modelled device has (the code probes 1..4).
MaxSwitch == 2

\* ---------------------------------------------------------- constants

\* const.py: API endpoints.
API_SYSTEM_STATUS == "/api/system/info"
API_SWITCH_CONTROL == "/api/switch/ctrl"
API_DOOR_CONTROL == "/api/door/ctrl"
\* switch.py imports this name from const.py, which does not define it; the
\* model keeps it as an opaque endpoint.
API_SWITCH_STATUS == "API_SWITCH_STATUS"

\* __init__.py: PLATFORMS.
PLATFORMS == {"sensor", "switch", "camera"}

\* A key that a JSON object does not hold, and coordinator.data before any
\* refresh (Python's None): no object at all.
Absent == "absent"
NoData == <<>>

\* The one config entry of the model.
Entries == {"entry1"}

\* ------------------------------------------------- the device's answers

\* The switch whose state the firmware of the modelled device reports.
VARIABLE reported_switch

\* Status fields the entities read: key 0 is doorState, key n is switch<n>State.
\* The modelled firmware reports doorState and the state of one switch; every
\* other switch<n>State is missing from every body.
KeysOf(sw) == {0, sw}
StateKeys == KeysOf(reported_switch)

FieldValues(k) == IF k = 0 THEN {"locked", "unlocked", Absent} ELSE {"on", "off", Absent}

\* JSON objects the status endpoint of a device that reports switch sw can
\* answer with ({} is all-Absent).
BodiesOf ==
    [sw \in 1..MaxSwitch |->
        {b \in [KeysOf(sw) -> {"locked", "unlocked", "on", "off", Absent}] :
            \A k \in KeysOf(sw) : b[k] \in FieldValues(k)}]
Bodies == BodiesOf[reported_switch]

EmptyBody == [k \in StateKeys |-> Absent]

\* dict.get(key): None for a missing key.
DictGet(d, k) == IF k \in DOMAIN d THEN d[k] ELSE Absent

\* What one GET can come back with: an HTTP status or an exception class.
FailStatuses == {"401", "500"}
TransportExceptions == {"ClientConnectorError", "TimeoutError"}
CtrlOutcomes == {"200"} \cup FailStatuses \cup TransportExceptions

\* Outcomes of the status poll: HTTP 200 with a JSON object, HTTP 200 with a
\* body that is not JSON (malformed text, or a content type that is not JSON),
\* a non-200 status, or an exception of the transport.
PollOutcomesOf ==
    [sw \in 1..MaxSwitch |->
        [kind : {"ok"}, body : BodiesOf[sw]]
        \cup [kind : {"bad_json", "bad_content_type"} \cup FailStatuses
                      \cup TransportExceptions \cup {"ClientError"},
              body : {[k \in KeysOf(sw) |-> Absent]}]]
PollOutcomes == PollOutcomesOf[reported_switch]

\* ------------------------------------- coordinator: _async_update_data

\* The outcome of a block of Python: a returned value or a raised exception.
Return(v) == [ret |-> "return", data |-> v, exc |-> "none", msg |-> ""]
Raise(e, m) == [ret |-> "raise", data |-> NoData, exc |-> e, msg |-> m]

\* aiohttp: ClientConnectorError and ContentTypeError are ClientErrors.
IsClientError(e) == e \in {"ClientConnectorError", "ContentTypeError", "ClientError"}

\* Faulty variant of ParseJson: the ValueError of resp.json() is not caught.
ParseJson_Uncaught(o) ==
    IF o.kind = "bad_json" THEN Raise("ValueError", "")
    ELSE IF o.kind = "bad_content_type" THEN Raise("ContentTypeError", "")
    ELSE Return(o.body)

\* Lines 148-153: resp.json() and its `except ValueError`: malformed JSON
\* is a ValueError, a content type that is not JSON a ContentTypeError.
ParseJson(o) ==
    IF o.kind = "bad_json"
    THEN Raise("UpdateFailed", "Invalid JSON response from API")
    ELSE IF o.kind = "bad_content_type" THEN Raise("ContentTypeError", "")
    ELSE Return(o.body)

\* Lines 127-153: the `async with session.get(...)` block of the poll.
ResponseBlock(o) ==
    IF o.kind \in TransportExceptions \cup {"ClientError"} THEN Raise(o.kind, "")
    ELSE IF o.kind = "401" THEN Raise("UpdateFailed", "Invalid authentication credentials")
    ELSE IF o.kind \in FailStatuses THEN Raise("UpdateFailed", "Error communicating with API: Status")
    ELSE ParseJson(o)

\* Lines 155-158: the inner try's except clauses.
InnerExcept(r) ==
    IF r.ret = "return" THEN r
    ELSE IF r.exc = "ClientConnectorError" THEN Raise("UpdateFailed", "Connection failed")
    ELSE IF r.exc = "TimeoutError" THEN Raise("UpdateFailed", "Timeout connecting")
    ELSE r

\* Lines 160-165: the outer try's except clauses.
OuterExcept(r) ==
    IF r.ret = "return" THEN r
    ELSE IF r.exc = "ClientConnectorError" THEN Raise("UpdateFailed", "Cannot connect")
    ELSE IF IsClientError(r.exc) THEN Raise("UpdateFailed", "Error communicating with API")
    ELSE IF r.exc = "TimeoutError" THEN Raise("UpdateFailed", "Timeout connecting")
    ELSE r

\* _async_update_data (the second definition, the one the class keeps).
AsyncUpdateData(o) == OuterExcept(InnerExcept(ResponseBlock(o)))

\* Faulty variant of RefreshedData: the returned body is merged into the
\* cache, a field it does not hold keeping its cached value.
RefreshedData_Merged(cur, r) ==
    IF r.ret = "return"
    THEN [k \in DOMAIN r.data |->
            IF r.data[k] = Absent /\ k \in DOMAIN cur THEN cur[k] ELSE r.data[k]]
    ELSE cur

\* DataUpdateCoordinator refresh around _async_update_data: a returned value
\* becomes coordinator.data, an exception leaves it and clears
\* last_update_success.
RefreshedData(cur, r) == IF r.ret = "return" THEN r.data ELSE cur
RefreshedSuccess(r) == r.ret = "return"

\* How the refresh reports a poll: "ok", an update failure, or an exception
\* nothing in _async_update_data handled.
PollReport(r) ==
    IF r.ret = "return" THEN "ok"
    ELSE IF r.exc = "UpdateFailed" THEN "UpdateFailed"
    ELSE "unhandled"

\* ------------------------------- coordinator: device_info and _session

\* Keys of coordinator.device_info; an unset key reads Absent.
InfoFields == {"model", "manufacturer", "firmwareVersion", "serialNumber", "macAddress"}
IdentityFields == {"model", "firmwareVersion", "serialNumber", "macAddress"}

\* Line 38: device_info = None.
NoInfo == [f \in InfoFields |-> Absent]

\* _init_device_info: the defaults, unless device_info is already set.
InitDeviceInfo(info) ==
    IF info = NoInfo
    THEN [f \in InfoFields |->
            IF f = "model" THEN "2N IP Intercom"
            ELSE IF f = "manufacturer" THEN "2N"
            ELSE IF f = "firmwareVersion" THEN "Unknown"
            ELSE Absent]
    ELSE info

\* Faulty variant of DeviceInfoAfterPoll: a successful poll rebuilds
\* device_info from the fields of the body alone (the modelled bodies carry no
\* identity field).
DeviceInfoAfterPoll_Rebuilt(info, r) == IF r.ret = "return" THEN NoInfo ELSE info

\* device_info after a poll: the _async_update_data the class keeps (the
\* second definition) never assigns it.
DeviceInfoAfterPoll(info, r) == info

\* Line 45: update_interval=timedelta(seconds=30).
UPDATE_INTERVAL == 30

\* Faulty variant of NextInterval: a failed poll doubles the interval before
\* the next one, a successful poll restores it.
NextInterval_Backoff(cur, r) == IF r.ret = "return" THEN UPDATE_INTERVAL ELSE cur * 2

\* update_interval after a poll: set once in __init__, assigned nowhere else,
\* so the next refresh is scheduled at the same interval however the poll
\* ended.
NextInterval(cur, r) == cur

\* mac_address after a poll: the _async_update_data the class keeps never
\* assigns it.
MacAfterPoll(mac, r) == mac

\* Faulty variant of SessionsClosed: the session is closed by a call at the
\* end of the block, which an exception skips.
SessionsClosed_OnSuccess(opened, raised) == IF raised THEN 0 ELSE opened

\* `async with aiohttp.ClientSession() as session`: every session a handler
\* opened is closed when the block is left, by return or by exception.
SessionsClosed(opened, raised) == opened

\* Sessions open after a handler that opened some and left its blocks.
AfterSessions(cur, opened, raised) == cur + opened - SessionsClosed(opened, raised)

\* The name the device is registered under (switch.py, lines 96-109): the
\* coordinator keeps no device_name and never reads the configured name, the
\* entities take device_info's model, "2N IP Intercom" without one.
DeviceName(cfg, info) ==
    IF info = NoInfo \/ info["model"] = Absent THEN "2N IP Intercom" ELSE info["model"]

\* The identity fields of the status body of a device that reports them (the
\* keys the first _async_update_data reads, lines 80-96).
ReportedIdentity ==
    [f \in IdentityFields |->
        IF f = "model" THEN "2N IP Verso"
        ELSE IF f = "firmwareVersion" THEN "2.35.0"
        ELSE IF f = "serialNumber" THEN "54-1234-5678"
        ELSE "00:11:22:33:44:55"]

\* sensor.py, lines 19-79: the sensors async_setup_entry creates from
\* coordinator.device_info.
SensorKeys(info) ==
    {"device_state"}
    \cup (IF info # NoInfo /\ info["serialNumber"] # Absent THEN {"serial_number"} ELSE {})
    \cup (IF info # NoInfo /\ info["macAddress"] # Absent THEN {"mac_address"} ELSE {})
    \cup (IF info # NoInfo /\ info["firmwareVersion"] # Absent THEN {"firmware_version"} ELSE {})

\* async_shutdown: closes _session when it is set and not closed.
AsyncShutdown(s) == IF s = "open" THEN "closed" ELSE s

\* ---------------------------------------------------------------- state

VARIABLES
    hass_data,            \* hass.data: whether it holds DOMAIN, and the entry ids registered there
    entry_state,          \* the config entry: no_entry, not_loaded, setup_in_progress, loaded, setup_retry
    data,                 \* coordinator.data: NoData or the last returned body
    last_update_success,  \* coordinator.last_update_success (False: unavailable)
    forwarded,            \* platforms async_setup_entry has forwarded
    switches,             \* entities of the switch platform: 0 is the door, n is switch n
    session,              \* coordinator._session: None, open or closed
    device_info,          \* coordinator.device_info: the identity fields
    in_flight,            \* the scheduled poll awaiting the device's answer, if any
    config,               \* entry.data: name, username and password as configured
    reports_identity,     \* whether the device's status body carries its identity fields
    update_interval,      \* coordinator.update_interval in seconds (0: no coordinator yet)
    mac_address,          \* coordinator.mac_address
    open_sessions,        \* ClientSession objects the integration created and has not closed
    lastOp                \* the last handler run: its requests and how it ended

vars == <<hass_data, entry_state, data, last_update_success, forwarded, switches,
          session, device_info, in_flight, lastOp, reported_switch,
          config, reports_identity, update_interval, mac_address, open_sessions>>

Request(ep, sw, act) == [ep |-> ep, switch |-> sw, action |-> act]

\* The record a handler leaves: what it was asked, what it sent and how it
\* ended.  polled is how the poll it ran ended, sessions the ClientSession
\* objects it created, again whether it repeated the command before it,
\* was_on the switches that read on before a scheduled poll ended, body the
\* body its successful poll returned, auth the credentials each of its
\* requests carried, mentions the switches the detection body named.
Op(op, sw, act, status, verify, reqs, refresh, raised, msg) ==
    [op |-> op, sw |-> sw, action |-> act, status |-> status, verify |-> verify,
     requests |-> reqs, refresh |-> refresh, raised |-> raised, msg |-> msg,
     polled |-> "none", sessions |-> 0, again |-> FALSE, was_on |-> {},
     body |-> NoData, auth |-> <<>>, mentions |-> {}]

NoOp == Op("none", 0, "-", "-", "-", <<>>, FALSE, "none", "")

\* Entry data as the tests configure it: a name and credentials, or the host
\* alone.
FullConfig == [name |-> "Front Door Intercom", username |-> "installer", password |-> "secret"]
HostOnlyConfig == [name |-> Absent, username |-> Absent, password |-> Absent]

\* The state before the integration is set up, for a device whose firmware
\* reports the state of switch sw, with or without its identity fields, and
\* an entry configured with cfg.
InitWith(sw, cfg, ident) ==
    /\ reported_switch = sw
    /\ config = cfg
    /\ reports_identity = ident
    /\ update_interval = 0
    /\ mac_address = Absent
    /\ open_sessions = 0
    /\ hass_data = [domain |-> FALSE, entries |-> {}]
    /\ entry_state = "no_entry"
    /\ data = NoData
    /\ last_update_success = TRUE
    /\ forwarded = {}
    /\ switches = <<>>
    /\ session = "None"
    /\ device_info = NoInfo
    /\ in_flight = "none"
    /\ lastOp = NoOp

\* The same for the entry with a name and credentials and a device that
\* reports no identity field.
InitFor(sw) == InitWith(sw, FullConfig, FALSE)

\* A device that reports switch1State (a toggle switch in SWITCH_CONFIGS).
Init == InitFor(1)

\* A device that reports switch2State (a pulse switch in SWITCH_CONFIGS).
InitPulseFirmware == InitFor(2)

\* An entry configured with the host alone: no name, no credentials.
InitHostOnly == InitWith(1, HostOnlyConfig, FALSE)

\* A device whose status body carries model, firmwareVersion, serialNumber
\* and macAddress.
InitIdentityFirmware == InitWith(1, FullConfig, TRUE)

\* Switch numbers the device has.
SwitchIds == 1..MaxSwitch

HasEntity(n) == \E i \in 1..Len(switches) : switches[i] = n

\* is_on of the door switch and of switch n.
DoorIsOn == DictGet(data, 0) = "unlocked"
SwitchIsOn(n) == DictGet(data, n) = "on"

\* ------------------------------------------------- requests and credentials

\* const.py, lines 5-6.
DEFAULT_USERNAME == "admin"
DEFAULT_PASSWORD == "2n"

\* Python truth of a configured string: None and "" are false.
Truthy(x) == x # Absent /\ x # ""

\* aiohttp.BasicAuth(login, password), and auth=None (no Authorization
\* header).
BasicAuth(login, password) == [login |-> login, password |-> password]
NoAuth == [login |-> Absent, password |-> Absent]

\* coordinator.py, lines 110-112 and 170-173: auth stays None unless both
\* username and password are set.
PollAuth(cfg) ==
    IF Truthy(cfg.username) /\ Truthy(cfg.password)
    THEN BasicAuth(cfg.username, cfg.password)
    ELSE NoAuth

\* switch.py, lines 120-123, 144-147, 207-210, 249-252: `username or
\* DEFAULT_USERNAME`, `password or DEFAULT_PASSWORD`.
CommandAuth(cfg) ==
    BasicAuth(IF Truthy(cfg.username) THEN cfg.username ELSE DEFAULT_USERNAME,
              IF Truthy(cfg.password) THEN cfg.password ELSE DEFAULT_PASSWORD)

\* switch.py, lines 52-55: BasicAuth is built from coordinator.username and
\* coordinator.password as they are; it raises ValueError for None.
DetectAuthRaises(cfg) == cfg.username = Absent \/ cfg.password = Absent
DetectAuth(cfg) == BasicAuth(cfg.username, cfg.password)

\* config_flow.py, lines 42-50: the temporary coordinator takes the defaults
\* for the keys the input lacks, then validates as the coordinator polls.
FlowAuth(cfg) ==
    PollAuth([cfg EXCEPT !.username = IF @ = Absent THEN DEFAULT_USERNAME ELSE @,
                         !.password = IF @ = Absent THEN DEFAULT_PASSWORD ELSE @])

\* coordinator.py, lines 123-133: one run of _async_update_data sends one GET
\* to the status endpoint, whatever comes back.
PollRequests(o) == <<Request(API_SYSTEM_STATUS, 0, "-")>>

\* The body a poll returned, NoData when it raised.
PolledBody(r) == IF r.ret = "return" THEN r.data ELSE NoData

\* ------------------------------------------------------------ __init__.py

\* Faulty variant of SetDefault: hass.data[DOMAIN] = {} on every call.
SetDefault_Assign(d) == [domain |-> TRUE, entries |-> {}]

\* async_setup: hass.data.setdefault(DOMAIN, {}).
SetDefault(d) == IF d.domain THEN d ELSE [domain |-> TRUE, entries |-> {}]

AsyncSetup ==
    /\ UNCHANGED <<reported_switch, config, reports_identity>>
    /\ hass_data' = SetDefault(hass_data)
    /\ lastOp' = Op("async_setup", 0, "-", "-", "-", <<>>, FALSE, "none", "")
    /\ UNCHANGED <<entry_state, data, last_update_success, forwarded, switches,
                   session, device_info, in_flight, update_interval, mac_address,
                   open_sessions>>

\* async_setup_entry up to its await: a new coordinator (data None, _session
\* None, device_info initialised).  The
\* host runs it for an entry that is not loaded, and again by itself after
\* ConfigEntryNotReady (setup_retry).
SetupEntryBegin ==
    /\ UNCHANGED <<reported_switch, config, reports_identity>>
    /\ hass_data.domain
    /\ entry_state \in {"not_loaded", "setup_retry"}
    /\ entry_state' = "setup_in_progress"
    /\ data' = NoData
    /\ last_update_success' = TRUE
    /\ session' = "None"
    /\ device_info' = InitDeviceInfo(NoInfo)
    /\ mac_address' = Absent
    /\ update_interval' = UPDATE_INTERVAL
    /\ lastOp' = Op("setup_entry", 0, "-", "-", "-", <<>>, FALSE, "none", "")
    /\ UNCHANGED <<hass_data, forwarded, switches, in_flight, open_sessions>>

\* Lines 28-32: async_config_entry_first_refresh raises unless the first poll
\* succeeded, and async_setup_entry turns that into ConfigEntryNotReady.
FirstRefreshRaises(r) == ~RefreshedSuccess(r)

\* Faulty variant of RegisterAfterRefresh: the coordinator is registered
\* before the first refresh is awaited.
RegisterBeforeRefresh(reg, e, r) == [reg EXCEPT !.entries = @ \cup {e}]

\* Line 34: hass.data[DOMAIN][entry.entry_id] = coordinator, reached only
\* when the first refresh did not raise.
RegisterAfterRefresh(reg, e, r) ==
    IF FirstRefreshRaises(r) THEN reg ELSE [reg EXCEPT !.entries = @ \cup {e}]

\* Faulty variant of ForwardAfterRefresh: the platforms are forwarded before
\* the first refresh is awaited.
ForwardBeforeRefresh(r) == PLATFORMS

\* Lines 37-40: the platforms forwarded, reached only after line 34.
ForwardAfterRefresh(r) == IF FirstRefreshRaises(r) THEN {} ELSE PLATFORMS

\* async_setup_entry from the first refresh to its end.
SetupEntryFirstRefresh(e, o) ==
    /\ UNCHANGED <<reported_switch, config, reports_identity>>
    /\ entry_state = "setup_in_progress"
    /\ LET r == AsyncUpdateData(o) IN
        /\ data' = RefreshedData(data, r)
        /\ last_update_success' = RefreshedSuccess(r)
        /\ hass_data' = RegisterAfterRefresh(hass_data, e, r)
        /\ forwarded' = ForwardAfterRefresh(r)
        /\ entry_state' = IF FirstRefreshRaises(r) THEN "setup_retry" ELSE "loaded"
        /\ device_info' = DeviceInfoAfterPoll(device_info, r)
        /\ mac_address' = MacAfterPoll(mac_address, r)
        /\ update_interval' = NextInterval(update_interval, r)
        /\ open_sessions' = AfterSessions(open_sessions, 1, PollReport(r) # "ok")
        /\ lastOp' = [Op("first_refresh", 0, "-", o.kind, "-",
                         PollRequests(o), FALSE,
                         IF FirstRefreshRaises(r) THEN "ConfigEntryNotReady" ELSE "none",
                         r.msg)
                      EXCEPT !.polled = PollReport(r), !.sessions = 1,
                             !.body = PolledBody(r),
                             !.auth = <<PollAuth(config)>>]
    /\ UNCHANGED <<switches, session, in_flight>>

\* Faulty variant of UnloadedRegistry: the coordinator is popped before the
\* result of unloading the platforms is looked at.
UnloadedRegistry_Always(reg, e, unload_ok) == [reg EXCEPT !.entries = @ \ {e}]

\* Lines 48-49: hass.data[DOMAIN].pop(entry.entry_id), only if unload_ok.
UnloadedRegistry(reg, e, unload_ok) ==
    IF unload_ok THEN [reg EXCEPT !.entries = @ \ {e}] ELSE reg

\* Lines 48-50: what the handler does with the coordinator, in order.
UnloadSteps(unload_ok) == IF unload_ok THEN "pop,async_shutdown" ELSE ""

\* async_unload_entry: the platforms unload or not; when they do, the
\* coordinator leaves the registry and is shut down.  Neither
\* async_unload_entry nor async_shutdown awaits or cancels a poll in flight.
AsyncUnloadEntry(e, unload_ok) ==
    /\ UNCHANGED <<reported_switch, config, reports_identity>>
    /\ entry_state = "loaded"
    /\ hass_data' = UnloadedRegistry(hass_data, e, unload_ok)
    /\ IF unload_ok
       THEN /\ entry_state' = "not_loaded"
            /\ forwarded' = {}
            /\ switches' = <<>>
            /\ session' = AsyncShutdown(session)
       ELSE UNCHANGED <<entry_state, forwarded, switches, session>>
    /\ lastOp' = Op("unload", 0, "-", IF unload_ok THEN "ok" ELSE "failed", "-",
                    <<>>, FALSE, "none", UnloadSteps(unload_ok))
    /\ UNCHANGED <<data, last_update_success, device_info, in_flight,
                   update_interval, mac_address, open_sessions>>

\* The scheduled refresh of a loaded entry (update_interval, 30 s) up to
\* its await of the device's answer: the poll is in flight, its own
\* ClientSession open.  One scheduled refresh runs at a time.
PollBegin ==
    /\ UNCHANGED <<reported_switch, config, reports_identity>>
    /\ entry_state = "loaded"
    /\ in_flight = "none"
    /\ in_flight' = "poll"
    /\ open_sessions' = open_sessions + 1
    /\ UNCHANGED <<hass_data, entry_state, data, last_update_success, forwarded,
                   switches, session, device_info, lastOp, update_interval,
                   mac_address>>

\* The scheduled refresh from the device's answer to its end: one poll.
ScheduledPoll(o) ==
    /\ UNCHANGED <<reported_switch, config, reports_identity>>
    /\ entry_state = "loaded"
    /\ in_flight = "poll"
    /\ in_flight' = "none"
    /\ LET r == AsyncUpdateData(o) IN
        /\ data' = RefreshedData(data, r)
        /\ last_update_success' = RefreshedSuccess(r)
        /\ device_info' = DeviceInfoAfterPoll(device_info, r)
        /\ mac_address' = MacAfterPoll(mac_address, r)
        /\ update_interval' = NextInterval(update_interval, r)
        /\ open_sessions' = AfterSessions(open_sessions - 1, 1, PollReport(r) # "ok")
        /\ lastOp' = [Op("poll", 0, "-", o.kind, "-",
                         PollRequests(o), FALSE,
                         IF PollReport(r) = "ok" THEN "none" ELSE r.exc, r.msg)
                      EXCEPT !.polled = PollReport(r), !.sessions = 1,
                             !.was_on = {n \in SwitchIds : SwitchIsOn(n)},
                             !.body = PolledBody(r),
                             !.auth = <<PollAuth(config)>>]
    /\ UNCHANGED <<hass_data, entry_state, forwarded, switches, session>>

\* A poll that was in flight when its entry was unloaded gets its answer:
\* it ends on the coordinator that was shut down, and its ClientSession is
\* closed only now.
PollAfterUnload ==
    /\ UNCHANGED <<reported_switch, config, reports_identity>>
    /\ entry_state # "loaded"
    /\ in_flight = "poll"
    /\ in_flight' = "none"
    /\ open_sessions' = AfterSessions(open_sessions - 1, 1, FALSE)
    /\ UNCHANGED <<hass_data, entry_state, data, last_update_success, forwarded,
                   switches, session, device_info, lastOp, update_interval,
                   mac_address>>

\* -------------------------------------------------------------- switch.py

\* coordinator.async_request_refresh() awaited by a command: the coordinator's
\* debouncer polls now, or within its cooldown leaves the poll to a later
\* refresh (NoPoll; that poll is then a ScheduledPoll).  A command that never
\* reaches the call polls nothing.  A failed refresh is logged and never
\* raised into the command, whatever made it fail: one failure stands for all.
NoPoll == [kind |-> "none", body |-> EmptyBody]
RefreshPollsOf ==
    [sw \in 1..MaxSwitch |-> {p \in PollOutcomesOf[sw] : p.kind \in {"ok", "TimeoutError"}}]
RefreshOutcomes(reached) ==
    IF reached THEN RefreshPollsOf[reported_switch] \cup {NoPoll} ELSE {NoPoll}

\* Faulty variant of RequestRefreshData: the body of the poll a command's
\* refresh ran is dropped when a scheduled poll is in flight, which then
\* writes its own.
RequestRefreshData_Dropped(reached, cur, p) ==
    IF reached /\ p # NoPoll /\ in_flight = "none"
    THEN RefreshedData(cur, AsyncUpdateData(p))
    ELSE cur

RequestRefreshData(reached, cur, p) ==
    IF reached /\ p # NoPoll THEN RefreshedData(cur, AsyncUpdateData(p)) ELSE cur
RequestRefreshSuccess(reached, cur, p) ==
    IF reached /\ p # NoPoll THEN RefreshedSuccess(AsyncUpdateData(p)) ELSE cur

RequestRefreshInfo(reached, info, p) ==
    IF reached /\ p # NoPoll THEN DeviceInfoAfterPoll(info, AsyncUpdateData(p)) ELSE info

\* The body the refresh a command awaited returned, NoData without one.
RefreshBody(reached, p) ==
    IF reached /\ p # NoPoll THEN PolledBody(AsyncUpdateData(p)) ELSE NoData

RequestRefreshMac(reached, mac, p) ==
    IF reached /\ p # NoPoll THEN MacAfterPoll(mac, AsyncUpdateData(p)) ELSE mac

\* How the refresh a command awaited ended: no poll ran, or the poll's report.
Polled(reached, p) ==
    IF reached /\ p # NoPoll THEN PollReport(AsyncUpdateData(p)) ELSE "none"

\* ClientSession objects a command creates: its own (lines 119, 143, 206,
\* 248) and the one of the poll its refresh ran (coordinator.py line 123).
CommandSessions(reached, p) == IF Polled(reached, p) = "none" THEN 1 ELSE 2

\* The numbers setup probes: range(1, 5).
ProbedIds == <<1, 2, 3, 4>>

\* What the detection GET of async_setup_entry comes back with: HTTP 200 whose
\* body mentions the switches 1..k of a device that has k of them, a non-200
\* status, or an exception.
DetectOutcomes == [kind : {"200"}, mentions : {1..k : k \in 0..MaxSwitch}]
                  \cup [kind : FailStatuses \cup TransportExceptions \cup {"bad_json"},
                        mentions : {{}}]

\* What the try block of lines 46-73 ends with: BasicAuth raises before any
\* request when a credential is None, response.json() raises on a 200 body
\* that is not JSON, and the GET raises the transport exceptions.
DetectExceptions == TransportExceptions \cup {"bad_json", "ValueError"}
Detection(cfg, d) ==
    IF DetectAuthRaises(cfg) THEN [kind |-> "ValueError", mentions |-> {}] ELSE d

\* Faulty variant of DetectedSwitches: the fallback switch 1 is appended
\* whenever the probe did not find every switch, after what it found.
DetectedSwitches_FallbackToo(d) ==
    IF d.kind = "200"
    THEN SelectSeq(ProbedIds, LAMBDA n : n \in d.mentions)
         \o (IF d.mentions = {1, 2, 3, 4} THEN <<>> ELSE <<1>>)
    ELSE <<1>>

\* Lines 60-78: the switch entities added after the door switch.
DetectedSwitches(d) ==
    IF d.kind = "200" THEN SelectSeq(ProbedIds, LAMBDA n : n \in d.mentions)
    ELSE IF d.kind \in DetectExceptions THEN <<1>>
    ELSE <<>>

\* async_setup_entry of the switch platform.
SwitchSetupEntry(e, d) ==
    /\ UNCHANGED <<reported_switch, config, reports_identity>>
    /\ entry_state = "loaded"
    /\ "switch" \in forwarded
    /\ e \in hass_data.entries
    /\ switches = <<>>
    /\ LET det == Detection(config, d)
           sent == ~DetectAuthRaises(config) IN
        /\ switches' = <<0>> \o DetectedSwitches(det)
        /\ open_sessions' = AfterSessions(open_sessions, 1, det.kind \in DetectExceptions)
        /\ lastOp' = [Op("switch_setup", 0, "-", det.kind, "-",
                         IF sent THEN <<Request(API_SWITCH_STATUS, 0, "-")>> ELSE <<>>,
                         FALSE, "none", "")
                      EXCEPT !.sessions = 1,
                             !.auth = IF sent THEN <<DetectAuth(config)>> ELSE <<>>,
                             !.mentions = det.mentions]
    /\ UNCHANGED <<hass_data, entry_state, data, last_update_success, forwarded,
                   session, device_info, in_flight, update_interval, mac_address>>

\* Whether the request of a command failed: a non-200 status or an exception.
TransportFailed(o) == o # "200"

\* `except Exception` of the command handlers (lines 137, 161, 242, 284) and
\* their branches that only log: what leaves the handler to its caller.
CommandRaised(o) == "none"

\* The value a command asks entity n (0: the door) to take.
Commanded(n, act) ==
    IF n = 0 THEN (IF act = "on" THEN "unlocked" ELSE "locked") ELSE act

\* Faulty variant of CommandData: an accepted command writes the commanded
\* value into coordinator.data itself.
CommandData_Optimistic(cur, n, act, o) ==
    IF o = "200" /\ n \in DOMAIN cur THEN [cur EXCEPT ![n] = Commanded(n, act)] ELSE cur

\* coordinator.data as the handler of a command leaves it before it requests
\* the refresh: no handler of switch.py assigns coordinator.data.
CommandData(cur, n, act, o) == cur

\* Classes of the entities the switch platform adds (lines 43 and 62-78):
\* entity 0 is the door switch, entity n the switch n.
EntityClass(n) == IF n = 0 THEN "TwoNIntercomDoorSwitch" ELSE "TwoNIntercomSwitch"
PlatformEntities ==
    {[class |-> EntityClass(switches[i]), id |-> switches[i]] : i \in 1..Len(switches)}

\* Faulty variant of DoorRequest: the door is driven through the switch
\* endpoint.
DoorRequest_SwitchEndpoint(act) == Request(API_SWITCH_CONTROL, 1, act)

\* Lines 125-131 / 149-155: the GET of the door commands.
DoorRequest(act) == Request(API_DOOR_CONTROL, 1, act)

\* Faulty variant of DoorRequests: the GET is sent again when it was
\* answered.
DoorRequests_Resent(act, o) ==
    IF o \in TransportExceptions THEN <<DoorRequest(act)>>
    ELSE <<DoorRequest(act), DoorRequest(act)>>

\* Lines 119-135 / 143-159: the GETs of one door command, in order.
DoorRequests(act, o) == <<DoorRequest(act)>>

\* Line 136 / 160: the refresh is reached unless the GET raised.
DoorReachesRefresh(o) == o \notin TransportExceptions

\* Whether a door command answered o repeats the command before it: the last
\* handler run was the same door command, and the device accepted both.
DoorAgain(act, o) ==
    /\ o = "200"
    /\ lastOp.op = "door" /\ lastOp.action = act /\ lastOp.status = "200"

\* TwoNIntercomDoorSwitch.async_turn_on (act "on") and async_turn_off ("off").
DoorTurn(act, o, p) ==
    /\ UNCHANGED <<reported_switch, config, reports_identity>>
    /\ entry_state = "loaded"
    /\ HasEntity(0)
    /\ LET reached == DoorReachesRefresh(o) IN
        /\ data' = RequestRefreshData(reached, CommandData(data, 0, act, o), p)
        /\ last_update_success' = RequestRefreshSuccess(reached, last_update_success, p)
        /\ device_info' = RequestRefreshInfo(reached, device_info, p)
        /\ mac_address' = RequestRefreshMac(reached, mac_address, p)
        /\ open_sessions' = AfterSessions(open_sessions, CommandSessions(reached, p),
                                          o \in TransportExceptions)
        /\ lastOp' = [Op("door", 0, act, o, "-", DoorRequests(act, o), reached,
                         CommandRaised(o), "")
                      EXCEPT !.polled = Polled(reached, p),
                             !.sessions = CommandSessions(reached, p),
                             !.again = DoorAgain(act, o),
                             !.body = RefreshBody(reached, p),
                             !.auth = [i \in 1..Len(DoorRequests(act, o)) |->
                                          CommandAuth(config)]]
    /\ UNCHANGED <<hass_data, entry_state, forwarded, switches, session, in_flight,
                   update_interval>>

\* const.py, SWITCH_CONFIGS and DEFAULT_SWITCH_MODE: the mode configured for
\* switch n (switch.py never reads it).
SWITCH_MODE_PULSE == "pulse"
SWITCH_MODE_TOGGLE == "toggle"
SwitchMode(n) == IF n \in {2, 3} THEN SWITCH_MODE_PULSE ELSE SWITCH_MODE_TOGGLE

\* What the verification GET of a switch command comes back with.
VerifyOutcomes == {"200_mention", "200_other"} \cup FailStatuses \cup TransportExceptions
NoVerify == "-"

\* Lines 212-217 / 254-259: the control GET of the switch commands.
SwitchRequest(n, act) == Request(API_SWITCH_CONTROL, n, act)

\* Faulty variant of SwitchReachesVerify: only an exception of the control
\* GET skips the verification, a rejected command is verified too.
SwitchVerifiesUnlessRaised(o) == o \notin TransportExceptions

\* Lines 219-224: 401 and every other non-200 status return at once.
SwitchReachesVerify(o) == o = "200"
VerifyChoices(o) == IF SwitchReachesVerify(o) THEN VerifyOutcomes ELSE {NoVerify}

\* Faulty variant of SwitchReachesRefresh: the refresh is requested on every
\* path of the handler.
SwitchRefreshesAlways(o, v) == TRUE

\* Lines 233-237: the refresh, when the verification answers 200 and its
\* body mentions the switch.
SwitchReachesRefresh(o, v) == SwitchReachesVerify(o) /\ v = "200_mention"

SwitchRequests(n, act, o) ==
    IF SwitchReachesVerify(o)
    THEN <<SwitchRequest(n, act), Request(API_SWITCH_STATUS, 0, "-")>>
    ELSE <<SwitchRequest(n, act)>>

\* TwoNIntercomSwitch.async_turn_on (act "on") and async_turn_off ("off").
SwitchTurn(n, act, o, v, p) ==
    /\ UNCHANGED <<reported_switch, config, reports_identity>>
    /\ entry_state = "loaded"
    /\ HasEntity(n)
    /\ LET reached == SwitchReachesRefresh(o, v) IN
        /\ data' = RequestRefreshData(reached, CommandData(data, n, act, o), p)
        /\ last_update_success' = RequestRefreshSuccess(reached, last_update_success, p)
        /\ device_info' = RequestRefreshInfo(reached, device_info, p)
        /\ mac_address' = RequestRefreshMac(reached, mac_address, p)
        /\ open_sessions' = AfterSessions(open_sessions, CommandSessions(reached, p),
                                          o \in TransportExceptions
                                          \/ v \in TransportExceptions)
        /\ lastOp' = [Op("switch", n, act, o, v, SwitchRequests(n, act, o), reached,
                         CommandRaised(o), "")
                      EXCEPT !.polled = Polled(reached, p),
                             !.sessions = CommandSessions(reached, p),
                             !.body = RefreshBody(reached, p),
                             !.auth = [i \in 1..Len(SwitchRequests(n, act, o)) |->
                                          CommandAuth(config)]]
    /\ UNCHANGED <<hass_data, entry_state, forwarded, switches, session, in_flight,
                   update_interval>>

\* --------------------------------------------------------- config_flow.py

ValidationOutcomes == {"200"} \cup FailStatuses \cup TransportExceptions \cup {"ClientError"}

\* coordinator.async_validate_input: True on 200, False on another status or
\* on an aiohttp.ClientError; any other exception leaves it.
ValidateInput(v) ==
    IF v = "200" THEN [ret |-> "return", valid |-> TRUE, exc |-> "none"]
    ELSE IF v \in FailStatuses \/ IsClientError(v)
    THEN [ret |-> "return", valid |-> FALSE, exc |-> "none"]
    ELSE [ret |-> "raise", valid |-> FALSE, exc |-> v]

\* Lines 51-56: the entry is created when async_validate_input returned,
\* whatever it returned; an exception shows the form with errors.
FlowResult(has_input, r) ==
    IF ~has_input THEN "form"
    ELSE IF r.ret = "return" THEN "create_entry"
    ELSE "form_error_unknown"

\* ConfigFlow.async_step_user.
FlowStepUser(has_input, v) ==
    /\ UNCHANGED <<reported_switch, config, reports_identity>>
    /\ entry_state = "no_entry"
    /\ LET res == FlowResult(has_input, ValidateInput(v)) IN
        /\ entry_state' = IF res = "create_entry" THEN "not_loaded" ELSE entry_state
        /\ lastOp' = [Op("flow", 0, "-", IF has_input THEN v ELSE "-", "-",
                         IF has_input THEN <<Request(API_SYSTEM_STATUS, 0, "-")>> ELSE <<>>,
                         FALSE, "none", res)
                      EXCEPT !.sessions = IF has_input THEN 1 ELSE 0,
                             !.auth = IF has_input THEN <<FlowAuth(config)>> ELSE <<>>]
        /\ open_sessions' = AfterSessions(open_sessions, IF has_input THEN 1 ELSE 0,
                                          ValidateInput(v).exc # "none")
    /\ UNCHANGED <<hass_data, data, last_update_success, forwarded, switches,
                   session, device_info, in_flight, update_interval, mac_address>>

\* ---------------------------------------------------------- specification

Next ==
    \/ AsyncSetup
    \/ \E has_input \in BOOLEAN, v \in ValidationOutcomes : FlowStepUser(has_input, v)
    \/ SetupEntryBegin
    \/ \E e \in Entries, o \in PollOutcomes : SetupEntryFirstRefresh(e, o)
    \/ \E e \in Entries, d \in DetectOutcomes : SwitchSetupEntry(e, d)
    \/ PollBegin
    \/ \E o \in PollOutcomes : ScheduledPoll(o)
    \/ PollAfterUnload
    \/ \E act \in {"on", "off"}, o \in CtrlOutcomes :
          \E p \in RefreshOutcomes(DoorReachesRefresh(o)) : DoorTurn(act, o, p)
    \/ \E n \in SwitchIds, act \in {"on", "off"}, o \in CtrlOutcomes :
          \E v \in VerifyChoices(o) :
             \E p \in RefreshOutcomes(SwitchReachesRefresh(o, v)) : SwitchTurn(n, act, o, v, p)
    \/ \E e \in Entries, unload_ok \in BOOLEAN : AsyncUnloadEntry(e, unload_ok)

Spec == Init /\ [][Next]_vars

\* The same integration in front of the device that reports switch2State.
SpecPulseFirmware == InitPulseFirmware /\ [][Next]_vars

\* The same integration set up from an entry that holds the host alone.
SpecHostOnly == InitHostOnly /\ [][Next]_vars

\* The same integration in front of the device that reports its identity.
SpecIdentityFirmware == InitIdentityFirmware /\ [][Next]_vars

\* ----------------------------------------------------------------- steps

\* Every handler leaves its own record in lastOp, so a step that changes the
\* state is a run of handler h exactly when lastOp'.op = h.

\* A step that is a scheduled poll answered by an outcome of kind k.
PollStep(k) == lastOp'.op = "poll" /\ lastOp'.status = k

\* A step that is a door / switch command whose request was answered by o.
DoorStep(o) == lastOp'.op = "door" /\ lastOp'.status = o
SwitchStep(o) == lastOp'.op = "switch" /\ lastOp'.status = o

\* Bodies that omit doorState and switch1State.
BodiesWithoutDoorAndSwitch1 == {b \in Bodies : b[0] = Absent /\ b[1] = Absent}

IsCommand(op) == op.op \in {"door", "switch"}

\* Poll outcomes that are failures of the poll.
PollFailures == {"ClientConnectorError", "TimeoutError", "401", "500", "bad_json",
                 "bad_content_type"}

\* ---------------------------------------------------------------- claims

\* C1: with the door cached unlocked and switch 1 cached on, a successful
\* poll whose body omits doorState and switch1State leaves the door unlocked
\* and switch 1 on (absent fields keep their last known value).
C1_AbsentFieldsKeepLastValue ==
    [][\A b \in BodiesWithoutDoorAndSwitch1 :
          (/\ DoorIsOn /\ SwitchIsOn(1)
           /\ ScheduledPoll([kind |-> "ok", body |-> b]))
          => (DoorIsOn' /\ SwitchIsOn(1)')]_vars

C3_EveryCommandRequestsRefresh ==
    IsCommand(lastOp) => lastOp.refresh

\* C4: a command whose transport call failed is reported to its caller as
\* failed (an exception leaves the handler).
C4_FailedCommandIsReported ==
    (IsCommand(lastOp) /\ TransportFailed(lastOp.status)) => lastOp.raised # "none"

\* C5 as stated: a command whose transport call failed leaves
\* coordinator.data, when it returns, as it was when it was issued.
C5_FailedCommandKeepsCache ==
    [][\A o \in CtrlOutcomes :
          ((DoorStep(o) \/ SwitchStep(o)) /\ TransportFailed(o)) => data' = data]_vars

\* C5 amended: a switch command whose control request failed, and a door
\* command whose request raised (connection error, timeout), leave
\* coordinator.data as it was; a door command answered by a non-200 status
\* changes it only through the coordinator refresh it awaits, that is only
\* when that refresh's poll succeeded.
C5_FailedCommandWritesOnlyByRefresh ==
    [][\A o \in CtrlOutcomes :
          /\ (SwitchStep(o) /\ TransportFailed(o)) => data' = data
          /\ (DoorStep(o) /\ o \in TransportExceptions) => data' = data
          /\ (DoorStep(o) /\ o \in FailStatuses /\ data' # data)
                => (lastOp'.refresh /\ last_update_success')]_vars

\* C5 witness: a switch control request has just been answered 500 while the
\* coordinator holds a non-empty body.
C5_Witness ==
    /\ lastOp.op = "switch" /\ lastOp.status = "500"
    /\ data # NoData /\ data # EmptyBody

\* C6: a first poll answered 401 reports the authentication error, fails
\* async_setup_entry, and leaves the entry out of the registry and no
\* platform forwarded.
C6_AuthFailureFailsSetup ==
    (lastOp.op = "first_refresh" /\ lastOp.status = "401")
    => (/\ lastOp.msg = "Invalid authentication credentials"
        /\ lastOp.raised = "ConfigEntryNotReady"
        /\ hass_data.entries = {}
        /\ forwarded = {}
        /\ switches = <<>>
        /\ entry_state # "loaded")

\* C6 witness: the first poll of a set-up has just been answered 401.
C6_Witness ==
    lastOp.op = "first_refresh" /\ lastOp.status = "401" /\ hass_data.domain

\* C7: once a poll was answered 401, no poll and no set-up attempt follows
\* by itself (the credentials have to be entered again first; no handler of
\* the integration takes new credentials for an existing entry).
C7_AuthErrorIsNotRetried ==
    [][(lastOp.op \in {"poll", "first_refresh"} /\ lastOp.status = "401")
        => lastOp'.op \notin {"setup_entry", "poll"}]_vars

\* C8: a validation request answered 401 creates no config entry.
C8_InvalidAuthCreatesNoEntry ==
    (lastOp.op = "flow" /\ lastOp.status = "401")
    => (lastOp.msg # "create_entry" /\ entry_state = "no_entry")

\* C9: the coordinator is registered, the platforms are forwarded and the
\* entities exist only once a first poll has given coordinator.data a body;
\* a first poll that fails makes async_setup_entry fail.
C9_ReadyOnlyAfterFirstRefresh ==
    /\ (hass_data.entries # {} \/ forwarded # {} \/ switches # <<>>
            \/ entry_state = "loaded")
        => data # NoData
    /\ (lastOp.op = "first_refresh" /\ lastOp.status # "ok")
        => (/\ lastOp.raised = "ConfigEntryNotReady"
            /\ entry_state = "setup_retry"
            /\ hass_data.entries = {} /\ forwarded = {})

\* C9 witness: the entry is registered and loaded with its switch entities,
\* over a first poll result.
C9_Witness ==
    /\ entry_state = "loaded" /\ hass_data.entries = Entries
    /\ forwarded = PLATFORMS /\ Len(switches) > 1
    /\ data # NoData

\* C10: a door command issues exactly one GET, to /api/door/ctrl with switch 1
\* and action on (unlock) or off (lock), and when it is answered 200 the
\* coordinator refresh is requested before the command returns.
C10_DoorCommandRequest ==
    lastOp.op = "door"
    => (/\ lastOp.requests =
              <<[ep |-> "/api/door/ctrl", switch |-> 1, action |-> lastOp.action]>>
        /\ lastOp.action \in {"on", "off"}
        /\ lastOp.status = "200" => lastOp.refresh)

\* C10 witness: an unlock answered 200 has requested the refresh, and the
\* refreshed cache reads unlocked.
C10_Witness ==
    /\ lastOp.op = "door" /\ lastOp.action = "on" /\ lastOp.status = "200"
    /\ lastOp.refresh /\ DoorIsOn

\* A step that is the second of two door unlocks in a row, both answered 200.
TwoUnlocksInARow ==
    /\ lastOp.op = "door" /\ lastOp.action = "on" /\ lastOp.status = "200"
    /\ DoorStep("200") /\ lastOp'.action = "on"

\* C11 as stated: two door unlocks in a row, each answered 200, send exactly
\* two door-control requests, and the cached door state reads unlocked after
\* the second as after the first.
C11_TwoUnlocksOneFinalState ==
    [][TwoUnlocksInARow
        => (/\ Len(lastOp.requests) + Len(lastOp'.requests) = 2
            /\ DoorIsOn /\ DoorIsOn')]_vars

\* C11 amended: two door unlocks in a row, each answered 200, send exactly
\* two requests, both GET /api/door/ctrl with switch 1 and action on, and
\* neither writes the cache: after the second unlock coordinator.data is what
\* it was after the first unless the refresh the second awaited polled the
\* device successfully.
C11_TwoUnlocksTwoRequests ==
    [][TwoUnlocksInARow
        => (/\ lastOp.requests \o lastOp'.requests
                  = <<Request(API_DOOR_CONTROL, 1, "on"), Request(API_DOOR_CONTROL, 1, "on")>>
            /\ lastOp'.polled # "ok" => data' = data)]_vars

\* C11 witness: a second accepted unlock in a row has returned without a
\* poll, and the cache still reads unlocked from the refresh of the first.
C11_Witness ==
    /\ lastOp.op = "door" /\ lastOp.action = "on" /\ lastOp.again
    /\ lastOp.polled = "none" /\ DoorIsOn

\* C12: for a switch in toggle mode, an accepted turn_on (turn_off) makes the
\* state read on (off) as long as no poll has completed since the command.
C12_ToggleOptimisticUpdate ==
    \A n \in SwitchIds :
        (/\ lastOp.op = "switch" /\ lastOp.sw = n /\ lastOp.status = "200"
         /\ SwitchMode(n) = SWITCH_MODE_TOGGLE
         /\ lastOp.polled = "none")
        => (SwitchIsOn(n) <=> lastOp.action = "on")

\* C13: a command of a switch in pulse mode sends nothing when it is
\* turn_off, and never sends /api/switch/ctrl an action other than on.
C13_PulseSendsOnlyOn ==
    (lastOp.op = "switch" /\ SwitchMode(lastOp.sw) = SWITCH_MODE_PULSE)
    => (/\ lastOp.action = "off" => lastOp.requests = <<>>
        /\ \A i \in 1..Len(lastOp.requests) :
              lastOp.requests[i].ep = "/api/switch/ctrl"
                 => lastOp.requests[i].action = "on")

\* C14: a command of a switch in toggle mode sends GET /api/switch/hold with
\* the switch number and action on (turn_on) or off (turn_off), and sends
\* nothing to /api/switch/ctrl.
C14_ToggleUsesHoldEndpoint ==
    (lastOp.op = "switch" /\ SwitchMode(lastOp.sw) = SWITCH_MODE_TOGGLE)
    => (/\ lastOp.requests # <<>>
        /\ lastOp.requests[1] =
              [ep |-> "/api/switch/hold", switch |-> lastOp.sw, action |-> lastOp.action]
        /\ \A i \in 1..Len(lastOp.requests) :
              lastOp.requests[i].ep # "/api/switch/ctrl")

\* C16: after an accepted release (turn_off) of a bistable (toggle) switch,
\* the platform has a release indicator of that switch that reads true and
\* no hold indicator of it that reads true (the indicator is to revert to
\* false one time unit later).
C16_ReleaseSetsIndicator ==
    \A n \in SwitchIds :
        (/\ lastOp.op = "switch" /\ lastOp.sw = n /\ lastOp.action = "off"
         /\ lastOp.status = "200" /\ SwitchMode(n) = SWITCH_MODE_TOGGLE)
        => \E e \in PlatformEntities :
              e.id = n /\ e.class \notin {"TwoNIntercomDoorSwitch", "TwoNIntercomSwitch"}

\* Handlers that send requests to the device.
SendsRequests(op) == op.requests # <<>>

\* C17: every request of an instance goes through the one session of its
\* coordinator (no handler creates a session of its own), which is open
\* while requests are sent and closed once the instance is shut down.
C17_OneSharedSession ==
    /\ SendsRequests(lastOp) => (lastOp.sessions = 0 /\ session = "open")
    /\ (lastOp.op = "unload" /\ lastOp.status = "ok") => session = "closed"

\* C18: when async_unload_entry has unloaded the entry and shut the
\* coordinator down, no request of the instance is in flight (none holds a
\* connection open).
C18_ShutdownLeavesNothingInFlight ==
    (lastOp.op = "unload" /\ lastOp.status = "ok") => in_flight = "none"

PulseSwitches == {n \in SwitchIds : SwitchMode(n) = SWITCH_MODE_PULSE}

\* Bodies in which the device does not report switch n on.
BodiesNotOn(n) == {b \in Bodies : DictGet(b, n) # "on"}

C21_OneGetFixedInterval ==
    lastOp.op \in {"poll", "first_refresh"} =>
        /\ lastOp.requests = <<Request(API_SYSTEM_STATUS, 0, "-")>>
        /\ update_interval = UPDATE_INTERVAL
        /\ (lastOp.op = "poll" => (ENABLED PollBegin \/ in_flight = "poll"))

\* A scheduled poll failed and the next one is already in flight.
C21_Witness ==
    /\ lastOp.op = "poll" /\ lastOp.polled # "ok"
    /\ in_flight = "poll"
    /\ update_interval = UPDATE_INTERVAL

\* C22: every request a handler sends (status poll, validation, switch
\* detection, door or switch command) carries HTTP Basic credentials: the
\* configured ones, or the vendor defaults admin / 2n where the username or
\* the password is absent or empty.
C22_EveryRequestAuthenticated ==
    /\ Len(lastOp.auth) = Len(lastOp.requests)
    /\ \A i \in 1..Len(lastOp.auth) : lastOp.auth[i] = CommandAuth(config)

\* C23: the device name the coordinator exposes is the configured name when
\* one is given, and "2N IP Intercom (<host>)" when none is.
C23_DeviceNameFromConfig ==
    entry_state = "loaded" =>
        DeviceName(config, device_info) =
            IF config.name # Absent THEN config.name ELSE "2N IP Intercom (192.168.1.100)"

\* C24: after async_setup hass.data holds DOMAIN, and async_setup leaves the
\* coordinators already registered there in place.
C24_SetupKeepsRegistry ==
    [][lastOp'.op = "async_setup" =>
          /\ hass_data'.domain
          /\ hass_data'.entries = hass_data.entries]_vars

\* async_setup has run while a coordinator was registered, and it still is.
C24_Witness ==
    /\ lastOp.op = "async_setup"
    /\ hass_data.domain
    /\ hass_data.entries # {}

C26_IdentityFromPoll ==
    (reports_identity /\ lastOp.polled = "ok") =>
        /\ \A f \in IdentityFields : device_info[f] = ReportedIdentity[f]
        /\ mac_address = "001122334455"
        /\ {"serial_number", "mac_address"} \subseteq SensorKeys(device_info)

\* C27: a switch command sends one control GET first, then the verification
\* GET to the switch status endpoint only if the control GET was answered 200,
\* and requests the refresh only after a verification answered 200 with a
\* body that mentions the switch; nothing is sent twice.
C27_SwitchCommandSteps ==
    lastOp.op = "switch" =>
        LET ctrl == Request(API_SWITCH_CONTROL, lastOp.sw, lastOp.action)
            verification == Request(API_SWITCH_STATUS, 0, "-")
        IN  /\ lastOp.requests \in {<<ctrl>>, <<ctrl, verification>>}
            /\ (Len(lastOp.requests) = 2) <=> (lastOp.status = "200")
            /\ lastOp.refresh <=>
                  (Len(lastOp.requests) = 2 /\ lastOp.verify = "200_mention")
            /\ (lastOp.polled # "none") => lastOp.refresh

\* A switch command went through control, verification and a refresh that
\* polled the device.
C27_Witness ==
    /\ lastOp.op = "switch" /\ lastOp.status = "200"
    /\ Len(lastOp.requests) = 2
    /\ lastOp.refresh /\ lastOp.polled = "ok"

\* C28: the switch platform always creates exactly one door switch and each
\* switch 1..4 at most once; after a detection answered 200 the switches are
\* exactly those its body mentions, after a non-200 answer the door switch
\* stands alone, and the fallback switch 1 is added only when detection raised
\* an exception, when nothing else was detected.
C28_SwitchPlatformEntities ==
    /\ switches # <<>> =>
          /\ switches[1] = 0
          /\ \A i, j \in 1..Len(switches) : switches[i] = switches[j] => i = j
          /\ \A i \in 2..Len(switches) : switches[i] \in 1..4
    /\ lastOp.op = "switch_setup" =>
          /\ lastOp.status = "200" =>
                {switches[i] : i \in 2..Len(switches)} = lastOp.mentions
          /\ lastOp.status \in FailStatuses => switches = <<0>>
          /\ lastOp.status \in DetectExceptions => switches = <<0, 1>>
          /\ lastOp.status \in {"200"} \cup FailStatuses \cup DetectExceptions

\* Detection answered 200 and named switch 1: the door switch and one switch 1.
C28_Witness ==
    /\ lastOp.op = "switch_setup" /\ lastOp.status = "200"
    /\ 1 \in lastOp.mentions
    /\ switches[1] = 0 /\ switches[2] = 1

\* C29: every ClientSession a poll, a validation, a switch detection or a
\* command opened is closed when that operation returns, on every path: no
\* session is open while nothing is in flight, and the only one open otherwise
\* is that of the scheduled poll awaiting its answer.
C29_SessionsClosedOnReturn ==
    /\ in_flight = "none" => open_sessions = 0
    /\ in_flight = "poll" => open_sessions = 1

\* A switch command whose control GET raised has returned, after handlers
\* that opened sessions of their own, and no session is open.
C29_Witness ==
    /\ lastOp.op = "switch" /\ lastOp.status \in TransportExceptions
    /\ lastOp.sessions = 1
    /\ in_flight = "none"
    /\ open_sessions = 0

\* C30: async_unload_entry removes the coordinator from the registry and then
\* shuts it down exactly when unloading the platforms succeeded, and leaves
\* registry and coordinator as they were when it failed; an entry id is in
\* the registry exactly while its last setup succeeded and it has not been
\* unloaded successfully since.
C30_UnloadAndRegistry ==
    /\ [](/\ \A e \in Entries : (e \in hass_data.entries) <=> (entry_state = "loaded")
          /\ lastOp.op = "unload" =>
                IF lastOp.status = "ok"
                THEN /\ hass_data.entries = {}
                     /\ session # "open"
                     /\ lastOp.msg = "pop,async_shutdown"
                ELSE /\ hass_data.entries = Entries
                     /\ lastOp.msg = "")
    /\ [][(lastOp'.op = "unload" /\ lastOp'.status = "failed") =>
             UNCHANGED <<hass_data, entry_state, data, last_update_success, forwarded,
                         switches, session, device_info, mac_address,
                         update_interval>>]_vars

\* A successful unload has run: the coordinator has left the registry and the
\* entry is not loaded.
C30_Witness ==
    /\ lastOp.op = "unload" /\ lastOp.status = "ok"
    /\ lastOp.msg = "pop,async_shutdown"
    /\ hass_data.entries = {}
    /\ entry_state = "not_loaded"

====
